---- MODULE Spec2Model ----
(***************************************************************************)
(* Verification model of the EMLL object model:                            *)
(*   - utilities::Variant   (libraries/utilities/tcc/Variant.tcc)          *)
(*   - LinearPredictor      (libraries/predictors/src/LinearPredictor.cpp) *)
(*   - forestTrainer main   (tools/trainers/forestTrainer/src/main.cpp)    *)
(* Three specifications share the module: Spec (Variant), SpecModel (the   *)
(* layer graph and LinearPredictor::AddToModel) and SpecMain (the driver). *)
(***************************************************************************)
EXTENDS Integers, Sequences, FiniteSets, TLC

VARIABLES variants, heap, locals, copyOf,
          model, ret,
          pc, args, thrown, exitStatus, reported

varsVariant == <<variants, heap, locals, copyOf>>
varsModel == <<model, ret>>
varsMain == <<pc, args, thrown, exitStatus, reported>>
vars == <<variants, heap, locals, copyOf, model, ret, pc, args, thrown, exitStatus, reported>>

(***************************************************************************)
(* Bounds                                                                  *)
(***************************************************************************)
MaxVal == 2

\* the Variant objects of the caller: every operation involves at most two of
\* them, the source and the destination of a copy
VariantIds == {"v1", "v2"}
\* one cell per Variant plus the cell operator= allocates before it releases the old one
MaxHeap == Cardinality(VariantIds) + 1
Addrs == 1..MaxHeap
Values == 1..MaxVal

(***************************************************************************)
(* Types.  A template argument ValueType is a base type plus a flag that   *)
(* says whether it is an lvalue reference to that type.                    *)
(***************************************************************************)
BaseTypes == {"int", "std::string", "int*"}
ValueTypes == {[base |-> t, ref |-> FALSE] : t \in BaseTypes}
RefTypes == {[base |-> t, ref |-> TRUE] : t \in BaseTypes}
TypeArgs == ValueTypes \cup RefTypes

ValueOf(t) == [base |-> t, ref |-> FALSE]
RefOf(t) == [base |-> t, ref |-> TRUE]

\* std::type_index(typeid(ValueType)): typeid ignores references
TypeIndex(VT) == VT.base

\* std::is_fundamental<ValueType>::value
is_fundamental(VT) == VT.base = "int" /\ ~VT.ref

\* std::is_pointer<ValueType>::value
is_pointer(VT) == VT.base = "int*" /\ ~VT.ref

(***************************************************************************)
(* The caller's named variables, heap objects (VariantDerived<ValueType>)  *)
(* and Variant objects                                                     *)
(***************************************************************************)
NoType == "none"
NullPtr == 0

\* the named variables of the caller that operator= can be handed as lvalues
LocalIds == {"w"}
NoLocal == "none"
Undeclared == [state |-> "undeclared", type |-> NoType, val |-> 0]
OutOfScope == [state |-> "dead", type |-> NoType, val |-> 0]
Local(U, w) == [state |-> "alive", type |-> U, val |-> w]

\* what the member VariantDerived::_value is initialised from: a value, which
\* a ValueType that is no reference copies, or the caller's variable, which a
\* ValueType U& binds to
Value(w) == [val |-> w, ref |-> NoLocal]
Referent(n) == [val |-> 0, ref |-> n]

FreeCell == [used |-> FALSE, _type |-> NoType, cls |-> [base |-> NoType, ref |-> FALSE],
             _value |-> Value(0)]
NoVariant == [alive |-> FALSE, _type |-> NoType, _value |-> NullPtr]

\* VariantDerived(const ValueType& val) : VariantBase(typeid(ValueType)), _value(val)
VariantDerived(VT, val) ==
    [used |-> TRUE, _type |-> TypeIndex(VT), cls |-> VT, _value |-> val]

\* Variant(std::type_index type, std::unique_ptr<VariantBase> value)
Variant(type, ptr) == [alive |-> TRUE, _type |-> type, _value |-> ptr]

HasFree(h) == \E a \in Addrs : ~h[a].used
\* operator new: the lowest free address
New(h) == CHOOSE a \in Addrs : ~h[a].used /\ \A b \in Addrs : b < a => h[b].used

\* unique_ptr destructor / reset: the owned object is deleted
Delete(h, p) == IF p \in Addrs THEN [h EXCEPT ![p] = FreeCell] ELSE h

(***************************************************************************)
(* Queries.  A query yields the set of outcomes the build can produce: one *)
(* outcome, except for a read through a reference whose variable is gone.  *)
(***************************************************************************)
Returned(v) == [kind |-> "value", val |-> v]
Threw(k) == [kind |-> k, val |-> 0]
RuntimeError == "std::runtime_error"
TypeMismatch == "InputException::typeMismatch"
Crash == "crash"

\* a read through a dangling reference: any value, or a crash
Undefined == {Returned(x) : x \in Values} \cup {Threw(Crash)}

\* VariantDerived::GetValue: return _value
VariantDerived_GetValue(obj, loc) ==
    IF obj._value.ref = NoLocal THEN {Returned(obj._value.val)}
    ELSE IF loc[obj._value.ref].state = "alive" THEN {Returned(loc[obj._value.ref].val)}
    ELSE Undefined

\* VariantBase::GetValue<ValueType>: dynamic_cast to VariantDerived<ValueType>
VariantBase_GetValue(obj, loc, VT) ==
    IF obj.cls # VT THEN {Threw(TypeMismatch)} ELSE VariantDerived_GetValue(obj, loc)

\* mutant: the type test of Variant::GetValue inverted
Variant_GetValue_Inverted(v, h, loc, VT) ==
    IF TypeIndex(VT) = v._type THEN {Threw(RuntimeError)}
    ELSE VariantBase_GetValue(h[v._value], loc, VT)

\* Variant::GetValue<ValueType>
Variant_GetValue(v, h, loc, VT) ==
    IF TypeIndex(VT) # v._type THEN {Threw(RuntimeError)}
    ELSE VariantBase_GetValue(h[v._value], loc, VT)

\* Variant::IsType<ValueType>
Variant_IsType(v, VT) == TypeIndex(VT) = v._type

\* VariantDerived::IsPrimitiveType / IsSerializable / IsPointer
IsPrimitiveType(obj) == is_fundamental(obj.cls)
IsSerializable(obj) == ~IsPrimitiveType(obj)
IsPointer(obj) == is_pointer(obj.cls)

\* mutant: Clone hands out the object itself instead of a copy
VariantDerived_Clone_Shallow(h, p) == [heap |-> h, ptr |-> p]

\* VariantDerived::Clone: new VariantDerived<ValueType>(_value), returned as
\* unique_ptr; for a ValueType U& the copy binds to the same variable
VariantDerived_Clone(h, p) ==
    LET ptr == New(h) IN
    [heap |-> [h EXCEPT ![ptr] = VariantDerived(h[p].cls, h[p]._value)], ptr |-> ptr]

(***************************************************************************)
(* Variant operations                                                      *)
(***************************************************************************)

\* history of copies: copyOf[j] = i when Variant j was made by copying Variant i
\* and has not been assigned or destroyed since; NoId otherwise
NoId == "none"
Copied(i, j) == copyOf' = [copyOf EXCEPT ![j] = i]
Modified(i) == copyOf' = [copyOf EXCEPT ![i] = NoId]

\* MakeVariant<ValueType>(args...) constructing the Variant in slot i
MakeVariant(i, VT, v) ==
    /\ ~variants[i].alive
    /\ HasFree(heap)
    /\ LET basePtr == New(heap) IN
        /\ heap' = [heap EXCEPT ![basePtr] = VariantDerived(VT, Value(v))]
        /\ variants' = [variants EXCEPT ![i] = Variant(TypeIndex(VT), basePtr)]
    /\ Modified(i)
    /\ UNCHANGED locals

\* Variant::operator=(ValueType&& value); ctorThrows: the new expression throws
OperatorAssign(i, VT, value, ctorThrows) ==
    /\ variants[i].alive
    /\ HasFree(heap)
    /\ IF ctorThrows
       THEN /\ variants' = [variants EXCEPT ![i]._type = TypeIndex(VT)]
            /\ heap' = heap
       ELSE LET basePtr == New(heap) IN
            /\ variants' = [variants EXCEPT ![i] = Variant(TypeIndex(VT), basePtr)]
            /\ heap' = Delete([heap EXCEPT ![basePtr] = VariantDerived(VT, value)],
                              variants[i]._value)
    /\ Modified(i)
    /\ UNCHANGED locals

\* variant = U(...): a temporary deduces ValueType = U
AssignTemporary(i, U, w) ==
    /\ OperatorAssign(i, ValueOf(U), Value(w), FALSE)

\* U n; variant = n: a named variable deduces ValueType = U&
AssignNamed(i, n) ==
    /\ locals[n].state = "alive"
    /\ OperatorAssign(i, RefOf(locals[n].type), Referent(n), FALSE)

\* variant = w where constructing the new held value throws
AssignThrows(i, VT) ==
    /\ OperatorAssign(i, VT, Value(0), TRUE)

\* Variant copy (Clone) of slot i into the unconstructed slot j
Clone(i, j) ==
    /\ i # j
    /\ variants[i].alive
    /\ ~variants[j].alive
    /\ HasFree(heap)
    /\ LET copy == VariantDerived_Clone(heap, variants[i]._value) IN
        /\ heap' = copy.heap
        /\ variants' = [variants EXCEPT ![j] = Variant(variants[i]._type, copy.ptr)]
    /\ Copied(i, j)
    /\ UNCHANGED locals

\* ~Variant: the held value is released
Destroy(i) ==
    /\ variants[i].alive
    /\ heap' = Delete(heap, variants[i]._value)
    /\ variants' = [variants EXCEPT ![i] = NoVariant]
    /\ Modified(i)
    /\ UNCHANGED locals

\* the caller declares the variable: U n = w
DeclareLocal(n, U, w) ==
    /\ locals[n].state = "undeclared"
    /\ locals' = [locals EXCEPT ![n] = Local(U, w)]
    /\ UNCHANGED <<variants, heap, copyOf>>

\* the caller assigns to the variable: n = w
SetLocal(n, w) ==
    /\ locals[n].state = "alive"
    /\ locals[n].val # w
    /\ locals' = [locals EXCEPT ![n].val = w]
    /\ UNCHANGED <<variants, heap, copyOf>>

\* the variable goes out of scope; references bound to it dangle
EndScope(n) ==
    /\ locals[n].state = "alive"
    /\ locals' = [locals EXCEPT ![n] = OutOfScope]
    /\ UNCHANGED <<variants, heap, copyOf>>

InitVariant ==
    /\ variants = [i \in VariantIds |-> NoVariant]
    /\ heap = [a \in Addrs |-> FreeCell]
    /\ locals = [n \in LocalIds |-> Undeclared]
    /\ copyOf = [i \in VariantIds |-> NoId]

NextVariant ==
    \/ \E i \in VariantIds, VT \in ValueTypes, v \in Values : MakeVariant(i, VT, v)
    \/ \E i \in VariantIds, U \in BaseTypes, w \in Values : AssignTemporary(i, U, w)
    \/ \E i \in VariantIds, n \in LocalIds : AssignNamed(i, n)
    \/ \E i \in VariantIds, VT \in TypeArgs : AssignThrows(i, VT)
    \/ \E i \in VariantIds, j \in VariantIds : Clone(i, j)
    \/ \E i \in VariantIds : Destroy(i)
    \/ \E n \in LocalIds, U \in BaseTypes, w \in Values : DeclareLocal(n, U, w)
    \/ \E n \in LocalIds, w \in Values : SetLocal(n, w)
    \/ \E n \in LocalIds : EndScope(n)

(***************************************************************************)
(* Variant properties                                                      *)
(***************************************************************************)
Held(i) == heap[variants[i]._value]

\* C1: the Variant built by MakeVariant<T>(v) returns v from GetValue<T>(),
\* without raising an error.
C1_RoundTrip ==
    [][ \A i \in VariantIds, T \in ValueTypes, v \in Values :
            MakeVariant(i, T, v) =>
                Variant_GetValue(variants'[i], heap', locals', T) = {Returned(v)}
      ]_vars

C1_Witness ==
    \E i \in VariantIds :
        /\ variants[i].alive
        /\ Held(i) = VariantDerived(ValueOf("std::string"), Value(2))
        /\ Variant_GetValue(variants[i], heap, locals, ValueOf("std::string")) = {Returned(2)}

\* C2: for every type U different from T, GetValue<U>() on MakeVariant<T>(v)
\* fails with the type-mismatch error kind and with no other error kind.
C2_TypeMismatchKind ==
    [][ \A i \in VariantIds, T \in ValueTypes, v \in Values :
            MakeVariant(i, T, v) =>
                \A U \in TypeArgs \ {T} :
                    Variant_GetValue(variants'[i], heap', locals', U) = {Threw(TypeMismatch)}
      ]_vars

\* the Variant v holds w under type U and no longer answers to type T
HoldsAfterAssign(v, h, loc, U, w, T) ==
    /\ Variant_IsType(v, ValueOf(U))
    /\ Variant_GetValue(v, h, loc, ValueOf(U)) = {Returned(w)}
    /\ ~Variant_IsType(v, ValueOf(T))
    /\ \A r \in Variant_GetValue(v, h, loc, ValueOf(T)) : r.kind # "value"

\* C3: after variant = w (w of type U, previous type T # U), from a temporary
\* or from a named variable, IsType<U>() is true, GetValue<U>() returns w,
\* IsType<T>() is false and GetValue<T>() fails.
C3_Reassign ==
    [][ /\ \A i \in VariantIds, U \in BaseTypes, w \in Values :
            (AssignTemporary(i, U, w) /\ variants[i]._type # U) =>
                HoldsAfterAssign(variants'[i], heap', locals', U, w, variants[i]._type)
        /\ \A i \in VariantIds, n \in LocalIds :
            (AssignNamed(i, n) /\ variants[i]._type # locals[n].type) =>
                HoldsAfterAssign(variants'[i], heap', locals', locals[n].type, locals[n].val,
                                 variants[i]._type)
      ]_vars

\* C4: in every reachable state the type identifier stored in a Variant equals
\* the type of the value it actually holds.
C4_TypeMatchesHeld ==
    \A i \in VariantIds : variants[i].alive =>
        /\ Held(i).used
        /\ Held(i)._type = variants[i]._type

\* C5: a clone holds a value equal to the original's under the same type, in
\* storage of its own, and reassigning or destroying one Variant leaves the
\* type and held value of every other Variant unchanged.
C5_CloneIndependent ==
    [][ /\ \A i \in VariantIds, j \in VariantIds :
            Clone(i, j) =>
                /\ variants'[j]._type = variants'[i]._type
                /\ variants'[j]._value # variants'[i]._value
                /\ heap'[variants'[j]._value] = heap'[variants'[i]._value]
                /\ \A VT \in TypeArgs :
                    Variant_GetValue(variants'[j], heap', locals', VT) =
                        Variant_GetValue(variants'[i], heap', locals', VT)
        /\ \A i \in VariantIds :
            \* a step of operator= or of the destructor on Variant i
            (variants[i].alive /\ variants'[i] # variants[i]) =>
                \A j \in VariantIds \ {i} : variants[j].alive =>
                    /\ variants'[j] = variants[j]
                    /\ heap'[variants[j]._value] = heap[variants[j]._value]
                    /\ \A VT \in TypeArgs :
                        Variant_GetValue(variants'[j], heap', locals', VT) =
                            Variant_GetValue(variants[j], heap, locals, VT)
      ]_vars

\* Variant j was made by copying Variant i, Variant i has since been
\* destroyed, and Variant j still holds the copied value in storage of its own
C5_Witness ==
    \E i \in VariantIds, j \in VariantIds :
        /\ i # j
        /\ copyOf[j] = i
        /\ ~variants[i].alive
        /\ variants[j].alive
        /\ Held(j) = VariantDerived(ValueOf("std::string"), Value(2))
        /\ Variant_GetValue(variants[j], heap, locals, ValueOf("std::string")) = {Returned(2)}

\* C10: IsSerializable() is exactly the negation of IsPrimitiveType(), and a
\* Variant holding a pointer value reports IsPointer() and IsSerializable()
\* and is not classified as primitive.
C10_Classification ==
    \A i \in VariantIds : (variants[i].alive /\ Held(i).used) =>
        /\ IsSerializable(Held(i)) = ~IsPrimitiveType(Held(i))
        /\ Held(i)._type = "int*" =>
            /\ IsPointer(Held(i))
            /\ IsSerializable(Held(i))
            /\ ~IsPrimitiveType(Held(i))

(***************************************************************************)
(* Layer graph (Model) and LinearPredictor                                 *)
(***************************************************************************)
MaxLayers == 4
MaxDim == 2
MaxWeight == 2

Weights == {-1, MaxWeight}
Biases == {0, 1}
InputValues == {-1, 0, 1}
Dims == 1..MaxDim

\* the predictors (_w, _b) AddToModel is called on
Predictors == {[_w |-> w, _b |-> b] : w \in UNION {[1..d -> Weights] : d \in Dims}, b \in Biases}
NoPredictor == [_w |-> << >>, _b |-> 0]

\* Coordinate: (layer index, element index), both counted from 1
Coordinate(l, e) == [layer |-> l, elem |-> e]
Coordinates == {Coordinate(l, e) : l \in 1..MaxLayers, e \in Dims}

\* layers::Coordinatewise(values, coordinates, operationType)
Coordinatewise(values, inputCoordinates, operationType) ==
    [kind |-> operationType, values |-> values, inputs |-> inputCoordinates,
     size |-> Len(inputCoordinates)]

\* layers::Sum(coordinates)
Sum(inputCoordinates) ==
    [kind |-> "sum", values |-> << >>, inputs |-> inputCoordinates, size |-> 1]

\* model::InputNode<double>(size)
InputNode(size) == [kind |-> "input", values |-> << >>, inputs |-> << >>, size |-> size]

\* nodes::SimpleForestPredictorNode(input, predictor): one output
ForestPredictorNode(inputCoordinates) ==
    [kind |-> "forest", values |-> << >>, inputs |-> inputCoordinates, size |-> 1]

\* the output coordinates of layer number l of model m
OutputCoordinates(m, l) == [e \in 1..m[l].size |-> Coordinate(l, e)]

\* a coordinate resolves to an element of a layer the model owns
Resolves(m, c) == c.layer \in 1..Len(m) /\ c.elem \in 1..m[c.layer].size

Failed(m) == [ok |-> FALSE, model |-> m, coords |-> << >>]

\* mutant: AddLayer accepts a layer whatever its coordinates refer to
AddLayer_Unchecked(m, layer) ==
    [ok |-> TRUE, model |-> Append(m, layer),
     coords |-> [e \in 1..layer.size |-> Coordinate(Len(m) + 1, e)]]

\* Model::AddLayer / Model::AddNode: rejects a layer wired to a coordinate the
\* model does not hold, else appends it and returns its output coordinates
AddLayer(m, layer) ==
    IF \E k \in 1..Len(layer.inputs) : ~Resolves(m, layer.inputs[k])
    THEN Failed(m)
    ELSE [ok |-> TRUE, model |-> Append(m, layer),
          coords |-> [e \in 1..layer.size |-> Coordinate(Len(m) + 1, e)]]

\* mutant: AddToModel returns the sum layer's coordinates and skips the bias layer
LinearPredictor_AddToModel_NoBias(this, m, inputCoordinates) ==
    LET weights == AddLayer(m, Coordinatewise(this._w, inputCoordinates, "multiply")) IN
    IF ~weights.ok THEN weights
    ELSE AddLayer(weights.model, Sum(weights.coords))

\* LinearPredictor::AddToModel; an exception of AddLayer propagates and the
\* layers added before it stay in the model
LinearPredictor_AddToModel(this, m, inputCoordinates) ==
    LET weights == AddLayer(m, Coordinatewise(this._w, inputCoordinates, "multiply")) IN
    IF ~weights.ok THEN weights
    ELSE LET sum == AddLayer(weights.model, Sum(weights.coords)) IN
         IF ~sum.ok THEN sum
         ELSE AddLayer(sum.model, Coordinatewise(<<this._b>>, <<sum.coords[1]>>, "add"))

RECURSIVE SumSeq(_)
SumSeq(q) == IF q = << >> THEN 0 ELSE Head(q) + SumSeq(Tail(q))

\* IDataVector::Dot
Dot(x, w) == SumSeq([k \in 1..Len(w) |-> x[k] * w[k]])

\* mutant: Predict forgets the bias
LinearPredictor_Predict_NoBias(this, dataVector) == Dot(dataVector, this._w)

\* LinearPredictor::Predict
LinearPredictor_Predict(this, dataVector) == Dot(dataVector, this._w) + this._b

\* the value at coordinate c when every input node is fed x
RECURSIVE Evaluate(_, _, _)
Evaluate(m, x, c) ==
    LET layer == m[c.layer]
        in == [k \in 1..Len(layer.inputs) |-> Evaluate(m, x, layer.inputs[k])]
    IN CASE layer.kind = "input" -> x[c.elem]
         [] layer.kind = "multiply" -> layer.values[c.elem] * in[c.elem]
         [] layer.kind = "add" -> layer.values[c.elem] + in[c.elem]
         [] layer.kind = "sum" -> SumSeq(in)

Result(op, r, this, inputs, before) ==
    [op |-> op, ok |-> r.ok, coords |-> r.coords, this |-> this, inputs |-> inputs,
     before |-> before]

\* an exception of AddLayer ends the caller's run
Running == ret.op = "none" \/ ret.ok

\* a client of the library adds an input layer of n elements
AddInputLayer(n) ==
    /\ Running
    /\ Len(model) < MaxLayers
    /\ LET r == AddLayer(model, InputNode(n)) IN
        /\ model' = r.model
        /\ ret' = Result("AddInputLayer", r, NoPredictor, << >>, model)

\* model.AddLayer(std::make_unique<layers::Sum>(coordinates)), the coordinates
\* being elements 1..n of layer l, whether the model holds them or not
AddSumLayer(l, n) ==
    /\ Running
    /\ Len(model) < MaxLayers
    /\ LET inputCoordinates == [e \in 1..n |-> Coordinate(l, e)]
           r == AddLayer(model, Sum(inputCoordinates)) IN
        /\ model' = r.model
        /\ ret' = Result("AddSumLayer", r, NoPredictor, inputCoordinates, model)

\* predictor.AddToModel(model, inputCoordinates)
AddToModel(this, inputCoordinates) ==
    /\ Running
    /\ Len(model) + 3 <= MaxLayers
    /\ Len(inputCoordinates) = Len(this._w)
    /\ LET r == LinearPredictor_AddToModel(this, model, inputCoordinates) IN
        /\ model' = r.model
        /\ ret' = Result("AddToModel", r, this, inputCoordinates, model)

NoResult == Result("none", Failed(<< >>), NoPredictor, << >>, << >>)

NextModel ==
    \/ \E n \in Dims : AddInputLayer(n)
    \/ \E l \in 1..MaxLayers, n \in Dims : AddSumLayer(l, n)
    \/ /\ Running /\ Len(model) + 3 <= MaxLayers
       /\ \E this \in Predictors : \E ic \in [1..Len(this._w) -> Coordinates] :
            AddToModel(this, ic)

(***************************************************************************)
(* Layer graph properties                                                  *)
(***************************************************************************)
Added == ret.op = "AddToModel" /\ ret.ok

\* C6: AddToModel appends exactly three layers, in the order multiply by the
\* weights, sum, add the bias, leaves the layers already in the model
\* unchanged and returns the output coordinates of the add-bias layer.
C6_ThreeLayers ==
    Added =>
        LET n == Len(ret.before) IN
        /\ Len(model) = n + 3
        /\ SubSeq(model, 1, n) = ret.before
        /\ model[n + 1].kind = "multiply" /\ model[n + 1].values = ret.this._w
        /\ model[n + 2].kind = "sum"
        /\ model[n + 3].kind = "add" /\ model[n + 3].values = <<ret.this._b>>
        /\ ret.coords = OutputCoordinates(model, n + 3)

C6_Witness ==
    /\ Added
    /\ Len(ret.before) = 1
    /\ Len(model) = 4
    /\ Len(ret.this._w) = 2

\* C7: evaluating the layers AddToModel appended, at the coordinate it
\* returned, yields Predict of the values at the input coordinates, which is
\* their dot product with the weights plus the bias.
C7_PredictEquivalence ==
    Added =>
        \A x \in [Dims -> InputValues] :
            Evaluate(model, x, ret.coords[1]) =
                LinearPredictor_Predict(ret.this,
                    [k \in 1..Len(ret.inputs) |-> Evaluate(model, x, ret.inputs[k])])

C7_Witness ==
    /\ Added
    /\ ret.this = [_w |-> <<MaxWeight, -1>>, _b |-> 1]
    /\ ret.inputs = <<Coordinate(1, 1), Coordinate(1, 2)>>
    /\ Evaluate(model, [d \in Dims |-> 1], ret.coords[1]) = MaxWeight

\* C8: no layer's input coordinates reference a layer added later than itself
\* or an element the model does not hold, and an attempt to add a layer wired
\* to a coordinate that is not in the model is rejected and adds nothing.
C8_DagInvariant ==
    /\ \A k \in 1..Len(model) : \A j \in 1..Len(model[k].inputs) :
        /\ model[k].inputs[j].layer < k
        /\ Resolves(model, model[k].inputs[j])
    /\ (\E j \in 1..Len(ret.inputs) : ~Resolves(ret.before, ret.inputs[j])) =>
        /\ ~ret.ok
        /\ model = ret.before

C8_Witness ==
    /\ ret.op = "AddToModel"
    /\ ~ret.ok
    /\ Len(model) >= 1
    /\ \E j \in 1..Len(ret.inputs) : ret.inputs[j].layer > Len(model)

InitModel == model = << >> /\ ret = NoResult
(***************************************************************************)
(* forestTrainer main                                                      *)
(***************************************************************************)
MaxColumns == 2

PrintHelp == "CommandLineParserPrintHelpException"
ParseError == "CommandLineParserErrorException"
InvalidArgument == "InputException::invalidArgument"

\* the errors the core raises: Variant::GetValue (both of its throws) and the
\* invalid-argument error of main itself
CoreErrors == {TypeMismatch, RuntimeError, InvalidArgument}

\* the classes derived from utilities::Exception
IsUtilitiesException(e) == e \in {TypeMismatch, InvalidArgument}

\* no run of main: the model is built by a client of the library
NoCommandLine == [cmd |-> "none", verbose |-> FALSE, hasInputFile |-> FALSE,
                  parsedDataDimension |-> 0, outputModelFilename |-> ""]

\* the models a map file can hold: an input node, alone or summed
LoadedModels ==
    {<<InputNode(d)>> : d \in Dims}
        \cup {<<InputNode(d), Sum(OutputCoordinates(<<InputNode(d)>>, 1))>> : d \in Dims}

\* map.GetOutputElementsBase(0): the output of the map's last node
MapOutput(m) == OutputCoordinates(m, Len(m))

CommandLines ==
    [cmd : {"help", "bad", "ok"}, verbose : BOOLEAN, hasInputFile : BOOLEAN,
     parsedDataDimension : 0..MaxColumns, outputModelFilename : {"", "model.xml"}]

\* the catch clauses of main, in order; an exception none of them matches
\* leaves main and std::terminate ends the process
Catch(e) ==
    IF e = PrintHelp
    THEN [pc |-> "exited", exitStatus |-> "0", reported |-> "help text"]
    ELSE IF e = ParseError
    THEN [pc |-> "exited", exitStatus |-> "1", reported |-> "parse errors"]
    ELSE IF IsUtilitiesException(e)
    THEN [pc |-> "exited", exitStatus |-> "1", reported |-> "exception: message"]
    ELSE [pc |-> "terminated", exitStatus |-> "SIGABRT", reported |-> "nothing"]

Throw(e) ==
    /\ thrown' = e
    /\ pc' = Catch(e).pc
    /\ exitStatus' = Catch(e).exitStatus
    /\ reported' = Catch(e).reported
    /\ UNCHANGED <<args, model, ret>>

Goto(next) ==
    /\ pc' = next
    /\ UNCHANGED <<args, thrown, exitStatus, reported>>

\* commandLineParser.Parse()
Parse ==
    /\ pc = "start"
    /\ IF args.cmd = "help" THEN Throw(PrintHelp)
       ELSE IF args.cmd = "bad" THEN Throw(ParseError)
       ELSE Goto("loadMap") /\ UNCHANGED <<model, ret>>

\* common::LoadMap(mapLoadArguments): the model of the map file, or an empty
\* map when no file is named
LoadMap ==
    /\ pc = "loadMap"
    /\ Goto("checkDimension")
    /\ IF args.hasInputFile THEN model' \in LoadedModels ELSE model' = << >>
    /\ UNCHANGED ret

\* the data dimension check and the default map: a new model holding one
\* input node of numColumns elements
CheckDimension ==
    /\ pc = "checkDimension"
    /\ IF args.hasInputFile
       THEN Goto("getMappedDataset") /\ UNCHANGED <<model, ret>>
       ELSE IF args.parsedDataDimension = 0
       THEN Throw(InvalidArgument)
       ELSE LET r == AddLayer(<< >>, InputNode(args.parsedDataDimension)) IN
            /\ Goto("getMappedDataset")
            /\ model' = r.model
            /\ ret' = Result("AddInputNode", r, NoPredictor, << >>, << >>)

\* common::GetMappedDataset(dataLoadArguments, map)
GetMappedDataset ==
    /\ pc = "getMappedDataset"
    /\ Goto("train")
    /\ UNCHANGED <<model, ret>>

\* trainer->Update(...), trainer->GetPredictor()
Train ==
    /\ pc = "train"
    /\ Goto("save")
    /\ UNCHANGED <<model, ret>>

\* without an output file name main returns 0; otherwise the forest predictor
\* node is added to the map's model, wired to the map's output, and the model
\* is saved next
AddPredictorNode ==
    /\ pc = "save"
    /\ UNCHANGED <<args, thrown, reported>>
    /\ IF args.outputModelFilename = ""
       THEN /\ pc' = "exited"
            /\ exitStatus' = "0"
            /\ UNCHANGED <<model, ret>>
       ELSE LET r == AddLayer(model, ForestPredictorNode(MapOutput(model))) IN
            /\ pc' = "saveModel"
            /\ UNCHANGED exitStatus
            /\ model' = r.model
            /\ ret' = Result("AddForestPredictorNode", r, NoPredictor, MapOutput(model), model)

\* common::SaveModel(model, outputModelFilename); return 0
SaveAndReturn ==
    /\ pc = "saveModel"
    /\ pc' = "exited"
    /\ exitStatus' = "0"
    /\ UNCHANGED <<args, thrown, reported, model, ret>>

CalleeSteps == {"loadMap", "getMappedDataset", "train", "save", "saveModel"}

\* a callee of main raises a core error; at "save" the callees are those that
\* run before the node is added, at "saveModel" it is common::SaveModel
CalleeThrows(e) ==
    /\ pc \in CalleeSteps
    /\ pc = "save" => args.outputModelFilename # ""
    /\ Throw(e)

NextMain ==
    \/ Parse
    \/ LoadMap
    \/ CheckDimension
    \/ GetMappedDataset
    \/ Train
    \/ AddPredictorNode
    \/ SaveAndReturn
    \/ \E e \in CoreErrors : CalleeThrows(e)

\* C9: every core error raised during a run is caught by main and ends the
\* run with a reported message and a non-zero exit status; exit status 0 is
\* returned only when the run completes without error or help was requested.
C9_ErrorsReported ==
    pc \in {"exited", "terminated"} =>
        /\ thrown \in CoreErrors =>
            /\ pc = "exited"
            /\ reported # "nothing"
            /\ exitStatus # "0"
        /\ exitStatus = "0" => thrown \in {"none", PrintHelp}

InitMain ==
    /\ pc = "start"
    /\ thrown = "none"
    /\ exitStatus = "running"
    /\ reported = "nothing"

IdleMain == InitMain /\ args = NoCommandLine


\* Variant and its operations
Init == InitVariant /\ InitModel /\ IdleMain
Next == NextVariant /\ UNCHANGED varsModel /\ UNCHANGED varsMain
Spec == Init /\ [][Next]_vars

\* a run of forestTrainer on a command line
InitRun == InitVariant /\ InitModel /\ InitMain /\ args \in CommandLines
NextRun == NextMain /\ UNCHANGED varsVariant
SpecMain == InitRun /\ [][NextRun]_vars

\* the layer graph, built by a client of the library through AddLayer and
\* LinearPredictor::AddToModel, or by a run of forestTrainer
InitGraph == InitVariant /\ InitModel /\ InitMain /\ args \in CommandLines \cup {NoCommandLine}
NextGraph ==
    \/ args = NoCommandLine /\ NextModel /\ UNCHANGED varsVariant /\ UNCHANGED varsMain
    \/ args \in CommandLines /\ NextRun
SpecModel == InitGraph /\ [][NextGraph]_vars
====
